---- MODULE Spec2Model ----
(***************************************************************************)
(* etxDIR (src/etxDIR.py): a textual diagram is turned into a directory    *)
(* tree.  A text is a sequence of characters (one-character strings); the  *)
(* keywords of the brace dialect are single symbols of that alphabet.  A   *)
(* path is a sequence of segments below the filesystem root <<>>, each      *)
(* segment a text.                                                         *)
(***************************************************************************)
EXTENDS Integers, Sequences, FiniteSets, TLC

VARIABLES
    source,      \* the source document: [exists, text], text a sequence of lines
    fs,          \* the filesystem: [dirs, files, data] (data: the non-empty files)
    fs0,         \* history: the filesystem before the first run
    denied,      \* names the filesystem refuses to create (invalid names)
    pc,          \* position of the run in main()
    lines,       \* main: lines read from the source file
    items,       \* parse_salt_tree: the (depth, name) items
    i,           \* parse_salt_tree: index of the next item; parse_classic_uml: of the next line
    dir_stack,   \* parse_salt_tree: depth -> active directory
    path_stack,  \* parse_classic_uml: stack of active directories
    out,         \* console output, in order
    attempts,    \* history: the creations attempted by the parser, in order
    scope,       \* history: the brace scopes open in the document read so far
    exit_code,   \* exit status of the process (-1 while running)
    run,         \* 1 for the first run of the tool, 2 for a second run on its result
    first,       \* history: what the first run left behind
    name_str,    \* clean_name: the raw token handed to it
    cleaned      \* clean_name: the results of applying it once, twice, ...

vars == <<source, fs, fs0, denied, pc, lines, items, i, dir_stack, path_stack, out,
          attempts, scope, exit_code, run, first, name_str, cleaned>>

----------------------------------------------------------------------------
(* Bounds *)

MaxLines == 4      \* lines of a marker or brace document
MaxNoise == 3      \* lines of a document of mixed non-structural lines
MaxNested == 3    \* lines of a marker document whose names are paths
MaxTok == 5        \* characters of a raw token handed to clean_name
MaxDetect == 3     \* characters of a line handed to is_salt_file

----------------------------------------------------------------------------
(* Texts *)

Whitespace == {" ", "\n"}
DQ == "\""
SQ == "'"

Take(s, n) == SubSeq(s, 1, n)
Drop(s, n) == SubSeq(s, n + 1, Len(s))

RECURSIVE LeadCount(_, _)
\* number of leading characters of s that are in S
LeadCount(s, S) ==
    IF s = <<>> \/ Head(s) \notin S THEN 0 ELSE 1 + LeadCount(Tail(s), S)

RECURSIVE TrailCount(_, _)
\* number of trailing characters of s that are in S
TrailCount(s, S) ==
    IF s = <<>> \/ s[Len(s)] \notin S THEN 0
    ELSE 1 + TrailCount(Take(s, Len(s) - 1), S)

\* str.strip(chars): every leading and every trailing character of S is removed
StripSet(s, S) ==
    LET t == Drop(s, LeadCount(s, S))
    IN  Take(t, Len(t) - TrailCount(t, S))

\* str.strip()
Strip(s) == StripSet(s, Whitespace)

StartsWith(s, p) == Len(s) >= Len(p) /\ Take(s, Len(p)) = p

\* re.sub(r'^\s*\++\s*', '', s): a leading run of whitespace, one or more '+',
\* and the whitespace after them are removed; without a '+' nothing is
MarkerStripped(s) ==
    LET afterWs == Drop(s, LeadCount(s, Whitespace))
        pluses == LeadCount(afterWs, {"+"})
        rest == Drop(afterWs, pluses)
    IN  IF pluses > 0 THEN Drop(rest, LeadCount(rest, Whitespace)) ELSE s

\* one layer only: at most one quote character taken from each end
clean_name_one_layer(s) ==
    LET t == Strip(MarkerStripped(s))
        a == IF t # <<>> /\ Head(t) \in {DQ, SQ} THEN 1 ELSE 0
        b == IF Len(t) > a /\ t[Len(t)] \in {DQ, SQ} THEN 1 ELSE 0
    IN  IF s = <<>> THEN <<>> ELSE SubSeq(t, 1 + a, Len(t) - b)

clean_name(s) ==
    IF s = <<>> THEN <<>>
    ELSE StripSet(StripSet(Strip(MarkerStripped(s)), {DQ}), {SQ})

----------------------------------------------------------------------------
(* Paths and the filesystem the tool runs on *)

\* args.target_directory.resolve(): the absolute path /t
target_root == << <<"t">> >>

Parent(p) == Take(p, Len(p) - 1)

RECURSIVE LeadCountNot(_, _)
\* number of leading characters of s that are not in S
LeadCountNot(s, S) ==
    IF s = <<>> \/ Head(s) \in S THEN 0 ELSE 1 + LeadCountNot(Tail(s), S)

RECURSIVE Segments(_)
\* the segments of a text used as a path: split at '/', empty and '.' segments dropped
Segments(s) ==
    IF s = <<>> THEN <<>>
    ELSE LET n == LeadCountNot(s, {"/"})
             seg == Take(s, n)
             rest == Segments(Drop(s, n + 1))
         IN  IF seg = <<>> \/ seg = <<".">> THEN rest ELSE <<seg>> \o rest

\* pathlib's parent / name: an absolute name replaces the parent
PathJoin(parent, name) ==
    IF name # <<>> /\ Head(name) = "/" THEN Segments(name)
    ELSE parent \o Segments(name)

RECURSIVE ResolveFrom(_, _)
ResolveFrom(acc, rest) ==
    IF rest = <<>> THEN acc
    ELSE IF Head(rest) = <<".", ".">>
         THEN ResolveFrom(IF acc = <<>> THEN <<>> ELSE Parent(acc), Tail(rest))
         ELSE ResolveFrom(Append(acc, Head(rest)), Tail(rest))

\* the entry a path names once the system has followed its '..' segments
Resolve(p) == ResolveFrom(<<>>, p)

\* the filesystem refuses to create an entry of this name
Denied(q) == q # <<>> /\ q[Len(q)] \in denied

RECURSIVE Mkdir(_, _, _, _)
\* Path.mkdir(parents, exist_ok) on filesystem f: [ok, fs].  ok is FALSE where
\* Python raises an OSError (FileExistsError, FileNotFoundError,
\* NotADirectoryError, PermissionError), and fs holds what was made before it
Mkdir(f, p, parents, exist_ok) ==
    LET q == Resolve(p)
    IN  IF q \in f.dirs THEN [ok |-> exist_ok, fs |-> f]
        ELSE IF q \in f.files THEN [ok |-> FALSE, fs |-> f]
        ELSE LET pre == IF parents THEN Mkdir(f, Parent(q), TRUE, TRUE)
                        ELSE [ok |-> Parent(q) \in f.dirs, fs |-> f]
             IN  IF ~pre.ok \/ Denied(q) THEN [ok |-> FALSE, fs |-> pre.fs]
                 ELSE [ok |-> TRUE, fs |-> [pre.fs EXCEPT !.dirs = @ \cup {q}]]

\* open(p, 'w') and close: [ok, fs]; an existing file is truncated
OpenW(f, p) ==
    LET q == Resolve(p)
    IN  IF q \in f.dirs \/ Parent(q) \notin f.dirs \/ Denied(q)
        THEN [ok |-> FALSE, fs |-> f]
        ELSE [ok |-> TRUE,
              fs |-> [f EXCEPT !.files = @ \cup {q}, !.data = @ \ {q}]]

----------------------------------------------------------------------------
(* Reading and routing *)

\* f.readlines(): every line keeps its newline
ReadLines(text) == [k \in 1..Len(text) |-> text[k] \o <<"\n">>]

\* the marker pattern with '*' for '+' (r'^\s*\+*'): every line matches it
is_salt_file_star(ls) == ls # <<>>

\* a return False inside the loop: only the first line decides
is_salt_file_first(ls) ==
    /\ ls # <<>>
    /\ \/ StartsWith(Strip(Head(ls)), <<"{", "T">>)
       \/ StartsWith(Drop(Head(ls), LeadCount(Head(ls), Whitespace)), <<"+">>)

RECURSIVE is_salt_file(_)
is_salt_file(ls) ==
    IF ls = <<>> THEN FALSE
    ELSE IF StartsWith(Strip(Head(ls)), <<"{", "T">>) THEN TRUE
    ELSE IF StartsWith(Drop(Head(ls), LeadCount(Head(ls), Whitespace)), <<"+">>) THEN TRUE
    ELSE is_salt_file(Tail(ls))

----------------------------------------------------------------------------
(* parse_salt_tree: preprocessing, classification, parent resolution *)

\* the preprocessing without its 'if clean:' test: an empty name is an item too
SaltItem_keep_empty(raw) ==
    LET line == Strip(raw)
        pluses == LeadCount(line, {"+"})
        afterPluses == Drop(line, pluses)
        name_part == Drop(afterPluses, LeadCount(afterPluses, Whitespace))
    IN  IF line = <<>> \/ Head(line) \in {SQ, "@"} \/ line \in {<<"}">>, <<"{">>, <<"{", "T">>}
        THEN <<>>
        ELSE IF pluses > 0
             THEN << [depth |-> pluses, name |-> clean_name(name_part)] >>
             ELSE <<>>

\* the item of one line: a sequence of no item or one
SaltItem(raw) ==
    LET line == Strip(raw)
        pluses == LeadCount(line, {"+"})
        afterPluses == Drop(line, pluses)
        name_part == Drop(afterPluses, LeadCount(afterPluses, Whitespace))
        clean == clean_name(name_part)
    IN  IF \/ line = <<>>
           \/ Head(line) = SQ
           \/ line = <<"}">>
           \/ line = <<"{">>
           \/ line = <<"{", "T">>
           \/ Head(line) = "@"
        THEN <<>>
        ELSE IF pluses > 0 /\ clean # <<>>
             THEN << [depth |-> pluses, name |-> clean] >>
             ELSE <<>>

RECURSIVE SaltItems(_)
SaltItems(ls) == IF ls = <<>> THEN <<>> ELSE SaltItem(Head(ls)) \o SaltItems(Tail(ls))

\* the look-ahead with >= for >: an item followed by a sibling becomes a folder
is_directory_ge(its, k) == k + 1 <= Len(its) /\ its[k + 1].depth >= its[k].depth

\* look ahead: the item is a folder when the next item is deeper
is_directory(its, k) == k + 1 <= Len(its) /\ its[k + 1].depth > its[k].depth

\* the fall-back loop left out: a skipped level is looked up as it is
FallBack_none(parent_depth, ds) == parent_depth

RECURSIVE FallBack(_, _)
\* while parent_depth > 0 and parent_depth not in dir_stack: parent_depth -= 1
FallBack(parent_depth, ds) ==
    IF parent_depth > 0 /\ parent_depth \notin DOMAIN ds
    THEN FallBack(parent_depth - 1, ds)
    ELSE parent_depth

\* the parent looked up at the item's own depth instead of the depth above it
parent_dir_own_depth(depth, ds) ==
    IF depth \in DOMAIN ds THEN ds[depth] ELSE target_root

\* dir_stack.get(parent_depth, target_root)
parent_dir(depth, ds) ==
    LET parent_depth == FallBack(depth - 1, ds)
    IN  IF parent_depth \in DOMAIN ds THEN ds[parent_depth] ELSE target_root

\* the registration moved before the mkdir: a failed directory is registered too
Register_always(ds, isdir, ok, depth, path) ==
    IF isdir
    THEN [d \in DOMAIN ds \cup {depth} |-> IF d = depth THEN path ELSE ds[d]]
    ELSE ds

\* registering a directory forgets the entries of deeper levels
Register_prune(ds, isdir, ok, depth, path) ==
    IF isdir /\ ok
    THEN [d \in {e \in DOMAIN ds : e < depth} \cup {depth} |->
              IF d = depth THEN path ELSE ds[d]]
    ELSE ds

\* dir_stack[depth] = current_path, inside the try, after mkdir has succeeded
Register(ds, isdir, ok, depth, path) ==
    IF isdir /\ ok
    THEN [d \in DOMAIN ds \cup {depth} |-> IF d = depth THEN path ELSE ds[d]]
    ELSE ds

----------------------------------------------------------------------------
(* parse_classic_uml: the definition pattern *)

DirTypes == {"package", "folder", "namespace", "node", "component"}
FileTypes == {"class", "interface", "file", "artifact", "object"}

\* str.lower() on a keyword symbol (re.IGNORECASE)
Lower(c) ==
    CASE c = "PACKAGE" -> "package"
      [] c = "Class" -> "class"
      [] OTHER -> c

\* definition_pattern.search(line) on a stripped line: [matched, obj_type, raw_name]
DefMatch(line) ==
    LET NoMatch == [matched |-> FALSE, obj_type |-> "", raw_name |-> <<>>]
    IN  IF line = <<>> \/ Lower(Head(line)) \notin DirTypes \cup FileTypes THEN NoMatch
        ELSE
        LET ws == LeadCount(Tail(line), Whitespace)
            rest == Drop(line, 1 + ws)
            inner == IF rest # <<>> /\ Head(rest) = DQ
                     THEN LeadCountNot(Tail(rest), {DQ}) ELSE 0
            bare == LeadCountNot(rest, Whitespace \cup {"{"})
        IN  IF ws = 0 THEN NoMatch
            ELSE IF inner > 0 /\ Len(rest) >= inner + 2
            THEN [matched |-> TRUE, obj_type |-> Lower(Head(line)),
                  raw_name |-> SubSeq(rest, 2, inner + 1)]
            ELSE IF bare > 0
            THEN [matched |-> TRUE, obj_type |-> Lower(Head(line)),
                  raw_name |-> Take(rest, bare)]
            ELSE NoMatch

----------------------------------------------------------------------------
(* The documents and the environments a run starts from *)

RECURSIVE SeqsUpTo(_, _)
SeqsUpTo(A, n) ==
    IF n = 0 THEN {<<>>}
    ELSE LET shorter == SeqsUpTo(A, n - 1)
         IN  shorter \cup {Append(t, c) : t \in {u \in shorter : Len(u) = n - 1}, c \in A}

\* marker lines: depths 1 to 3, two names, with the decorations the parser removes
SaltLines ==
    { <<"+", " ", "a">>,
      <<" ", "+", "b">>,
      <<"+", "+", " ", DQ, "a", DQ>>,
      <<"+", "+", " ", SQ, "b", SQ, " ">>,
      <<"+", "+", "+", " ", "a">> }

\* blank, comment, sentinel, annotation and empty-name lines, one line of each
\* dialect and a relation line that neither parser takes for a definition
NoiseLines ==
    { <<>>,
      <<SQ, "c">>,
      <<"{", "T">>,
      <<"@", "s">>,
      <<"+", " ", DQ, DQ>>,
      <<"package", " ", SQ, SQ>>,
      <<"+", " ", "a">>,
      <<"class", " ", "a">>,
      <<"a", " ", "-", ">", " ", "b">> }

\* brace lines: directory-like and file-like definitions, with and without '{', and '}'
UmlLines ==
    { <<"package", " ", "a", " ", "{">>,
      <<" ", "folder", " ", DQ, "b", DQ>>,
      <<"class", " ", "b", " ", "{">>,
      <<"Class", " ", "a">>,
      <<"}">> }

\* marker lines whose names are not plain segments: a/b and .., with the
\* directory a and a child
NestedLines ==
    { <<"+", " ", "a", "/", "b">>,
      <<"+", " ", "a">>,
      <<"+", "+", " ", "c">>,
      <<"+", " ", ".", ".">> }

\* the marker scenario: + app / ++ src / +++ main.txt / ++ docs
SaltScenario ==
    << <<"+", " ", "app">>,
       <<"+", "+", " ", "src">>,
       <<"+", "+", "+", " ", "main.txt">>,
       <<"+", "+", " ", "docs">> >>

\* the brace scenario: package app { / class Main / package utils { / class Helper / } / }
UmlScenario ==
    << <<"package", " ", "app", " ", "{">>,
       <<"class", " ", "Main">>,
       <<"package", " ", "utils", " ", "{">>,
       <<"class", " ", "Helper">>,
       <<"}">>,
       <<"}">> >>

Docs ==
    SeqsUpTo(SaltLines, MaxLines) \cup SeqsUpTo(NoiseLines, MaxNoise)
        \cup SeqsUpTo(UmlLines, MaxLines) \cup SeqsUpTo(NestedLines, MaxNested)
        \cup {SaltScenario, UmlScenario}

\* nothing at the target yet
Fresh == [dirs |-> {<<>>}, files |-> {}, data |-> {}]

\* a target root that already holds a non-empty file a and a directory b
Populated ==
    [dirs |-> {<<>>, target_root, Append(target_root, <<"b">>)},
     files |-> {Append(target_root, <<"a">>)},
     data |-> {Append(target_root, <<"a">>)}]

\* a file stands where the target root should be
RootIsFile == [dirs |-> {<<>>}, files |-> {target_root}, data |-> {}]

\* the environments: a filesystem and the names it refuses (b: an invalid name)
Envs ==
    { [fs |-> Fresh, denied |-> {}],
      [fs |-> Fresh, denied |-> {<<"b">>}],
      [fs |-> Populated, denied |-> {}],
      [fs |-> RootIsFile, denied |-> {}] }

\* the state of a process that has not started main() yet
Fresh_process ==
    /\ pc = "main"
    /\ lines = <<>>
    /\ items = <<>>
    /\ i = 0
    /\ dir_stack = <<>>
    /\ path_stack = <<>>
    /\ out = <<>>
    /\ attempts = <<>>
    /\ scope = <<>>
    /\ exit_code = -1

Init ==
    /\ source \in {[exists |-> TRUE, text |-> d] : d \in Docs}
                    \cup {[exists |-> FALSE, text |-> <<>>]}
    /\ \E e \in Envs : fs = e.fs /\ denied = e.denied
    /\ fs0 = fs
    /\ Fresh_process
    /\ run = 1
    /\ first = <<>>
    /\ name_str = <<>>
    /\ cleaned = <<>>

Say(tag, path) == [tag |-> tag, path |-> path]

Said(tag, path) == \E k \in 1..Len(out) : out[k] = Say(tag, path)

----------------------------------------------------------------------------
(* main *)

\* target_root.mkdir(parents=True, exist_ok=True), then the processing banner
MainMkdirRoot ==
    /\ pc = "main"
    /\ LET made == Mkdir(fs, target_root, TRUE, TRUE)
       IN  IF made.ok
           THEN /\ fs' = made.fs
                /\ out' = Append(out, Say("PROCESSING", <<>>))
                /\ pc' = "read"
                /\ UNCHANGED exit_code
           ELSE /\ fs' = made.fs
                /\ out' = Append(out, Say("ERROR_ROOT", target_root))
                /\ pc' = "exit"
                /\ exit_code' = 1
    /\ UNCHANGED <<source, fs0, denied, lines, items, i, dir_stack, path_stack,
                   attempts, scope, run, first, name_str, cleaned>>

\* lines = f.readlines(), or FileNotFoundError
MainReadLines ==
    /\ pc = "read"
    /\ IF source.exists
       THEN /\ lines' = ReadLines(source.text)
            /\ pc' = "route"
            /\ UNCHANGED <<out, exit_code>>
       ELSE /\ out' = Append(out, Say("ERROR_NOT_FOUND", <<>>))
            /\ pc' = "exit"
            /\ exit_code' = 1
            /\ UNCHANGED lines
    /\ UNCHANGED <<source, fs, fs0, denied, items, i, dir_stack, path_stack,
                   attempts, scope, run, first, name_str, cleaned>>

\* if is_salt_file(lines): parse_salt_tree else: parse_classic_uml
MainRoute ==
    /\ pc = "route"
    /\ pc' = IF is_salt_file(lines) THEN "salt" ELSE "classic"
    /\ UNCHANGED <<source, fs, fs0, denied, lines, items, i, dir_stack, path_stack, out,
                   attempts, scope, exit_code, run, first, name_str, cleaned>>

\* the parser has returned: completion banner, exit code 0
MainComplete ==
    /\ pc = "ret"
    /\ out' = Append(out, Say("COMPLETE", <<>>))
    /\ exit_code' = 0
    /\ pc' = "done"
    /\ UNCHANGED <<source, fs, fs0, denied, lines, items, i, dir_stack, path_stack,
                   attempts, scope, run, first, name_str, cleaned>>

Finished == pc \in {"done", "exit", "crashed"}

\* the tool is run again on the same document and the tree the first run left
Rerun ==
    /\ Finished
    /\ run = 1
    /\ run' = 2
    /\ first' = << [fs |-> fs, out |-> out, attempts |-> attempts,
                    exit_code |-> exit_code, pc |-> pc] >>
    /\ pc' = "main"
    /\ lines' = <<>>
    /\ items' = <<>>
    /\ i' = 0
    /\ dir_stack' = <<>>
    /\ path_stack' = <<>>
    /\ out' = <<>>
    /\ attempts' = <<>>
    /\ scope' = <<>>
    /\ exit_code' = -1
    /\ UNCHANGED <<source, fs, fs0, denied, name_str, cleaned>>

----------------------------------------------------------------------------
(* parse_salt_tree *)

\* banner, preprocessing, the warning for no items, dir_stack = {0: target_root}
SaltPreprocess ==
    /\ pc = "salt"
    /\ LET its == SaltItems(lines)
       IN  /\ items' = its
           /\ IF its = <<>>
              THEN /\ out' = out \o <<Say("SALT", <<>>), Say("WARNING_NO_ITEMS", <<>>)>>
                   /\ pc' = "ret"
                   /\ UNCHANGED <<dir_stack, i>>
              ELSE /\ out' = Append(out, Say("SALT", <<>>))
                   /\ dir_stack' = (0 :> target_root)
                   /\ i' = 1
                   /\ pc' = "salt_loop"
    /\ UNCHANGED <<source, fs, fs0, denied, lines, path_stack, attempts, scope,
                   exit_code, run, first, name_str, cleaned>>

\* one pass of the loop over items: item i is classified, placed and created
SaltStep ==
    /\ pc = "salt_loop"
    /\ LET depth == items[i].depth
           name == items[i].name
           isdir == is_directory(items, i)
           parent == parent_dir(depth, dir_stack)
           current_path == PathJoin(parent, name)
           made == IF isdir THEN Mkdir(fs, current_path, TRUE, TRUE)
                   ELSE LET ensured == Mkdir(fs, parent, TRUE, TRUE)
                        IN  IF ensured.ok THEN OpenW(ensured.fs, current_path)
                            ELSE ensured
       IN  /\ fs' = made.fs
           /\ attempts' = Append(attempts,
                  [idx |-> i, kind |-> IF isdir THEN "dir" ELSE "file",
                   parent |-> parent, path |-> current_path, ok |-> made.ok,
                   expected |-> parent])
           /\ out' = Append(out,
                  Say(IF isdir THEN (IF made.ok THEN "DIR" ELSE "ERROR_DIR")
                      ELSE (IF made.ok THEN "FILE" ELSE "ERROR_FILE"), current_path))
           /\ dir_stack' = Register(dir_stack, isdir, made.ok, depth, current_path)
    /\ i' = i + 1
    /\ pc' = IF i = Len(items) THEN "ret" ELSE "salt_loop"
    /\ UNCHANGED <<source, fs0, denied, lines, items, path_stack, scope, exit_code,
                   run, first, name_str, cleaned>>

----------------------------------------------------------------------------
(* parse_classic_uml *)

Top(stack) == stack[Len(stack)]

\* history: the directory of the innermost brace scope still open that belongs
\* to a directory-like definition, the target root when there is none
RECURSIVE ScopeDir(_)
ScopeDir(sc) ==
    IF sc = <<>> THEN target_root
    ELSE IF Top(sc).kind = "dir" THEN Top(sc).path
    ELSE ScopeDir(Take(sc, Len(sc) - 1))

\* the pop without its guard
Pop_unguarded(stack) == Take(stack, Len(stack) - 1)

\* if len(path_stack) > 1: path_stack.pop()
Pop(stack) == IF Len(stack) > 1 THEN Take(stack, Len(stack) - 1) ELSE stack

\* every definition taken for a directory-like one
ClassicLine_all_dirs(raw) ==
    LET line == Strip(raw)
        m == DefMatch(line)
        Act(a, n) == [act |-> a, obj_name |-> n, brace |-> line[Len(line)] = "{"]
    IN  IF line = <<>> \/ Head(line) = SQ \/ Head(line) = "@"
        THEN [act |-> "skip", obj_name |-> <<>>, brace |-> FALSE]
        ELSE IF Head(line) = "}" THEN Act("pop", <<>>)
        ELSE IF ~m.matched THEN Act("none", <<>>)
        ELSE Act("dir", clean_name(m.raw_name))

\* what one line asks for: [act, obj_name, brace]
ClassicLine(raw) ==
    LET line == Strip(raw)
        m == DefMatch(line)
        Act(a, n) == [act |-> a, obj_name |-> n, brace |-> line[Len(line)] = "{"]
    IN  IF line = <<>> \/ Head(line) = SQ \/ Head(line) = "@"
        THEN [act |-> "skip", obj_name |-> <<>>, brace |-> FALSE]
        ELSE IF Head(line) = "}" THEN Act("pop", <<>>)
        ELSE IF ~m.matched THEN Act("none", <<>>)
        ELSE IF m.obj_type \in DirTypes THEN Act("dir", clean_name(m.raw_name))
        ELSE Act("file", clean_name(m.raw_name))

\* banner, path_stack = [target_root]
ClassicStart ==
    /\ pc = "classic"
    /\ out' = Append(out, Say("CLASSIC", <<>>))
    /\ path_stack' = <<target_root>>
    /\ i' = 1
    /\ pc' = IF lines = <<>> THEN "ret" ELSE "classic_loop"
    /\ UNCHANGED <<source, fs, fs0, denied, lines, items, dir_stack, attempts, scope,
                   exit_code, run, first, name_str, cleaned>>

\* one pass of the loop over lines.  mkdir and open are not inside a try: an
\* OSError ends the process with a traceback and exit code 1
ClassicStep ==
    /\ pc = "classic_loop"
    /\ LET l == ClassicLine(lines[i])
           target == PathJoin(Top(path_stack), l.obj_name)
           made == IF l.act = "dir" THEN Mkdir(fs, target, FALSE, TRUE)
                   ELSE IF l.act = "file" THEN OpenW(fs, target)
                   ELSE [ok |-> TRUE, fs |-> fs]
           creates == l.act \in {"dir", "file"}
       IN  /\ fs' = made.fs
           /\ attempts' = IF creates
                          THEN Append(attempts,
                                 [idx |-> i, kind |-> l.act, parent |-> Top(path_stack),
                                  path |-> target, ok |-> made.ok,
                                  expected |-> ScopeDir(scope)])
                          ELSE attempts
           /\ out' = IF creates /\ made.ok
                     THEN Append(out, Say(IF l.act = "dir" THEN "DIR" ELSE "FILE", target))
                     ELSE out
           /\ path_stack' = IF l.act = "pop" THEN Pop(path_stack)
                            ELSE IF l.act = "dir" /\ made.ok
                            THEN Append(path_stack, target)
                            ELSE path_stack
           /\ scope' = IF l.act = "pop" /\ scope # <<>>
                       THEN Take(scope, Len(scope) - 1)
                       ELSE IF l.act = "dir"
                       THEN Append(scope, [kind |-> "dir",
                                           path |-> PathJoin(ScopeDir(scope), l.obj_name)])
                       ELSE IF l.act = "file" /\ l.brace
                       THEN Append(scope, [kind |-> "body", path |-> <<>>])
                       ELSE scope
           /\ IF made.ok
              THEN /\ pc' = IF i = Len(lines) THEN "ret" ELSE "classic_loop"
                   /\ UNCHANGED exit_code
              ELSE /\ pc' = "crashed"
                   /\ exit_code' = 1
    /\ i' = i + 1
    /\ UNCHANGED <<source, fs0, denied, lines, items, dir_stack, run, first, name_str, cleaned>>

Next ==
    \/ MainMkdirRoot
    \/ MainReadLines
    \/ MainRoute
    \/ SaltPreprocess
    \/ SaltStep
    \/ ClassicStart
    \/ ClassicStep
    \/ MainComplete
    \/ Rerun

Spec == Init /\ [][Next]_vars

----------------------------------------------------------------------------
(* Properties of the marker parser *)

\* the run is inside, or has returned from, parse_salt_tree's loop
SaltRun == items # <<>>

Under(parent, name) == Append(parent, name)

\* C1: every marker item is attempted once, in order, as a directory exactly
\* when the next item exists and is strictly deeper, and as an empty file
\* otherwise (the last item included); a creation that succeeded left an entry
\* of that kind at the item's path
C1_Classification ==
    SaltRun =>
        \A k \in 1..Len(attempts) :
            LET a == attempts[k]
                deeper == k < Len(items) /\ items[k + 1].depth > items[k].depth
            IN  /\ a.idx = k
                /\ a.kind = (IF deeper THEN "dir" ELSE "file")
                /\ a.ok /\ a.kind = "dir" => Resolve(a.path) \in fs.dirs
                /\ a.ok /\ a.kind = "file" =>
                       Resolve(a.path) \in fs.files /\ Resolve(a.path) \notin fs.data

\* C1 witness: a finished marker run of three or more items that made a
\* directory, an item followed by a sibling as a file, and its last item as a file
C1_Witness ==
    /\ SaltRun
    /\ pc = "ret"
    /\ Len(items) >= 3
    /\ Len(attempts) = Len(items)
    /\ \E k \in 1..Len(attempts) : attempts[k].kind = "dir" /\ attempts[k].ok
    /\ \E k \in 1..(Len(attempts) - 1) :
           /\ items[k + 1].depth = items[k].depth
           /\ attempts[k].kind = "file" /\ attempts[k].ok
    /\ attempts[Len(attempts)].kind = "file" /\ attempts[Len(attempts)].ok

\* the marker scenario has run to completion on a fresh target that refuses nothing
ScenarioDone ==
    /\ source.text = SaltScenario
    /\ fs0 = Fresh
    /\ denied = {}
    /\ run = 1
    /\ pc = "done"

App == Under(target_root, <<"app">>)
AppSrc == Under(App, <<"src">>)
AppSrcMain == Under(AppSrc, <<"main.txt">>)
AppDocs == Under(App, <<"docs">>)

\* C3 as stated: the marker scenario leaves app, app/src and app/docs as
\* directories and app/src/main.txt as an empty file
C3_ScenarioAsStated ==
    ScenarioDone =>
        /\ {App, AppSrc, AppDocs} \subseteq fs.dirs
        /\ AppSrcMain \in fs.files

\* C3 amended: the marker scenario leaves app and app/src as directories and
\* app/src/main.txt and app/docs (the last item) as empty files, and nothing else
C3_Scenario ==
    ScenarioDone =>
        /\ fs.dirs = {<<>>, target_root, App, AppSrc}
        /\ fs.files = {AppSrcMain, AppDocs}
        /\ fs.data = {}
        /\ exit_code = 0

\* C3 witness: the scenario has completed
C3_Witness == ScenarioDone /\ Len(attempts) = 4 /\ \A k \in 1..4 : attempts[k].ok

Max(S) == CHOOSE x \in S : \A y \in S : y <= x

\* C8: an item of depth d with no directory registered at depth d-1 is placed
\* in the directory registered at the greatest depth below d-1, the target
\* root when only depth 0 is there, and its failure is no error of the run;
\* with depths 1, 3 the second item is placed inside the first item's directory
\* once that directory was made
C8_SkippedDepth ==
    [][ pc = "salt_loop" =>
          LET d == items[i].depth
              a == attempts'[Len(attempts')]
              below == {e \in DOMAIN dir_stack : 0 < e /\ e < d - 1}
          IN  /\ (d - 1) \notin DOMAIN dir_stack =>
                    /\ a.parent = IF below = {} THEN target_root
                                  ELSE dir_stack[Max(below)]
                    /\ pc' \in {"salt_loop", "ret"}
                    /\ exit_code' = exit_code
              /\ ( /\ Len(items) = 2 /\ i = 2
                   /\ items[1].depth = 1 /\ items[2].depth = 3
                   /\ attempts[1].ok ) =>
                    /\ a.parent = attempts[1].path
                    /\ a.parent # target_root
                    /\ a.path = Under(attempts[1].path, items[2].name) ]_vars

\* C8 witness: depths 1, 3, and the depth-3 item created inside the depth-1 directory
C8_Witness ==
    /\ Len(items) = 2
    /\ items[1].depth = 1 /\ items[2].depth = 3
    /\ Len(attempts) = 2
    /\ attempts[1].ok /\ attempts[2].ok
    /\ attempts[2].parent = attempts[1].path
    /\ Resolve(attempts[2].path) \in fs.files

\* C10: in the marker parser depth 0 of dir_stack is the target root, and every
\* other depth holds the path of a directory item of that depth whose creation
\* succeeded in this run (and which exists)
C10_PathContext ==
    pc = "salt_loop" \/ SaltRun =>
        /\ 0 \in DOMAIN dir_stack
        /\ dir_stack[0] = target_root
        /\ \A d \in DOMAIN dir_stack \ {0} :
               /\ Resolve(dir_stack[d]) \in fs.dirs
               /\ \E k \in 1..Len(attempts) :
                      /\ attempts[k].kind = "dir"
                      /\ attempts[k].ok
                      /\ attempts[k].path = dir_stack[d]
                      /\ items[k].depth = d

\* C10 witness: a directory is registered, after the creation of another
\* directory failed, and a file was made
C10_Witness ==
    /\ SaltRun
    /\ Cardinality(DOMAIN dir_stack) >= 2
    /\ \E k \in 1..Len(attempts) : attempts[k].kind = "dir" /\ ~attempts[k].ok
    /\ \E k \in 1..Len(attempts) : attempts[k].kind = "file" /\ attempts[k].ok

----------------------------------------------------------------------------
(* Properties of the brace parser *)

\* the run is inside, or has returned from, parse_classic_uml's loop
ClassicRun == Said("CLASSIC", <<>>)

\* C2: every entity of a brace document is created directly under the
\* directory of the nearest enclosing directory-like definition whose scope is
\* still open, the target root when there is none
C2_NearestOpenScope ==
    ClassicRun =>
        \A k \in 1..Len(attempts) : attempts[k].parent = attempts[k].expected

\* C9: the path stack is never empty and its bottom is the target root; a '}'
\* line met with only the root on the stack leaves the stack as it is and the
\* run goes on, any other '}' line removes exactly the top element
C9_StackFloor ==
    /\ [](ClassicRun => Len(path_stack) >= 1 /\ path_stack[1] = target_root)
    /\ [][ pc = "classic_loop" /\ StartsWith(Strip(lines[i]), <<"}">>) =>
             /\ pc' \in {"classic_loop", "ret"}
             /\ exit_code' = exit_code
             /\ fs' = fs
             /\ path_stack' = IF Len(path_stack) = 1 THEN path_stack
                              ELSE Take(path_stack, Len(path_stack) - 1) ]_vars

\* C9 witness: after a pop, a '}' line has been read with only the root on the stack
C9_Witness ==
    /\ ClassicRun
    /\ pc \in {"classic_loop", "ret"}
    /\ i >= 4
    /\ StartsWith(Strip(lines[i - 1]), <<"}">>)
    /\ StartsWith(Strip(lines[i - 2]), <<"}">>)
    /\ ClassicLine(lines[i - 3]).act = "dir"
    /\ path_stack = <<target_root>>

----------------------------------------------------------------------------
(* Properties of a whole run *)

Failed == \E k \in 1..Len(attempts) : ~attempts[k].ok

\* C4: in both parsers a failed creation is reported, the run is not cut
\* short, and it ends with the completion banner and exit code 0
C4_FailuresNotFatal ==
    Failed =>
        /\ pc # "crashed"
        /\ \A k \in 1..Len(attempts) :
               ~attempts[k].ok =>
                   Said(IF attempts[k].kind = "dir" THEN "ERROR_DIR" ELSE "ERROR_FILE",
                        attempts[k].path)
        /\ Finished => pc = "done" /\ exit_code = 0 /\ Said("COMPLETE", <<>>)

\* C5: a second run on the tree the first one left ends with the same
\* directories and files, every file the document names empty (truncated), and
\* every creation has the outcome it had in the first run
C5_Idempotent ==
    run = 2 /\ Finished =>
        /\ fs.dirs = first[1].fs.dirs
        /\ fs.files = first[1].fs.files
        /\ fs.data = first[1].fs.data
        /\ attempts = first[1].attempts
        /\ exit_code = first[1].exit_code
        /\ \A k \in 1..Len(attempts) :
               attempts[k].ok /\ attempts[k].kind = "file" =>
                   Resolve(attempts[k].path) \notin fs.data

IsBlankOrComment(line) == Strip(line) = <<>> \/ Head(Strip(line)) = SQ

\* the source exists and holds nothing but blank and comment lines
EmptyDocument ==
    /\ source.exists
    /\ \A k \in 1..Len(source.text) : IsBlankOrComment(source.text[k])

RootMade == Mkdir(fs0, target_root, TRUE, TRUE).ok

\* C6 as stated: a run on an empty document prints the 'no items' warning
C6_EmptyWarns ==
    EmptyDocument /\ run = 1 /\ pc = "done" => Said("WARNING_NO_ITEMS", <<>>)

\* C6 amended: a run on an empty document takes the brace parser, finds no
\* item, prints no warning, changes nothing but the target root it creates, and
\* ends normally with exit code 0
C6_EmptyDocument ==
    EmptyDocument /\ RootMade /\ run = 1 =>
        /\ pc \notin {"salt", "salt_loop", "crashed", "exit"}
        /\ items = <<>>
        /\ attempts = <<>>
        /\ ~Said("WARNING_NO_ITEMS", <<>>)
        /\ fs.dirs \in {fs0.dirs, fs0.dirs \cup {target_root}}
        /\ fs.files = fs0.files
        /\ fs.data = fs0.data
        /\ pc \in {"ret", "done"} => Said("CLASSIC", <<>>)
        /\ Finished => pc = "done" /\ exit_code = 0 /\ target_root \in fs.dirs

\* C6 witness: a run on a document of a blank and a comment line has ended
C6_Witness ==
    /\ EmptyDocument
    /\ Len(source.text) >= 2
    /\ \E k \in 1..Len(source.text) : Strip(source.text[k]) = <<>>
    /\ \E k \in 1..Len(source.text) : Strip(source.text[k]) # <<>>
    /\ run = 1
    /\ pc = "done"

----------------------------------------------------------------------------
(* Properties of the paths and names of both parsers *)

Reverse(s) == [k \in 1..Len(s) |-> s[Len(s) + 1 - k]]

\* the line is optional whitespace, then '+', then anything
IsMarkerLine(raw) ==
    \E n \in 1..Len(raw) :
        /\ raw[n] = "+"
        /\ \A k \in 1..(n - 1) : raw[k] \in Whitespace

\* the line, trimmed, starts with '{T'
IsSentinelLine(raw) ==
    \E n \in 1..(Len(raw) - 1) :
        /\ raw[n] = "{" /\ raw[n + 1] = "T"
        /\ \A k \in 1..(n - 1) : raw[k] \in Whitespace

\* q is strictly inside the target root
InsideRoot(q) == Len(q) > Len(target_root) /\ Take(q, Len(target_root)) = target_root

\* C11: in both dialects every path on which a creation is attempted is a
\* proper descendant of the target root, whatever the names are
C11_RootContainment ==
    \A k \in 1..Len(attempts) : InsideRoot(Resolve(attempts[k].path))

\* C12: a line whose name normalizes to the empty string gives no structural
\* item and no filesystem operation, in the marker parser and in the brace parser
C12_EmptyNamesSkipped ==
    /\ \A k \in 1..Len(items) : items[k].name # <<>>
    /\ ClassicRun =>
           \A k \in 1..Len(attempts) :
               clean_name(DefMatch(Strip(lines[attempts[k].idx])).raw_name) # <<>>

\* C16: whenever a marker item is a directory and its creation succeeds, the
\* next item is created directly inside it
C16_ChildFollowsParent ==
    SaltRun =>
        \A k \in 1..(Len(attempts) - 1) :
            attempts[k].kind = "dir" /\ attempts[k].ok =>
                /\ attempts[k + 1].parent = attempts[k].path
                /\ attempts[k + 1].path = Under(attempts[k].path, items[k + 1].name)

\* the lines of a brace document that define an entity, in document order
RECURSIVE DefinitionLines(_, _)
DefinitionLines(ls, k) ==
    IF k > Len(ls) THEN <<>>
    ELSE (IF DefMatch(Strip(ls[k])).matched /\ ~StartsWith(Strip(ls[k]), <<"}">>)
          THEN <<k>> ELSE <<>>) \o DefinitionLines(ls, k + 1)

\* C19: creations are attempted in document order, once per item; a run that
\* has ended (after its target root was made and its source read) has
\* attempted every item, none skipped; and a creation that succeeded found its
\* parent directory in place
C19_DocumentOrder ==
    LET attempted == [k \in 1..Len(attempts) |-> attempts[k].idx]
    IN  /\ \A k \in 1..(Len(attempts) - 1) : attempted[k] < attempted[k + 1]
        /\ \A k \in 1..Len(attempts) :
               attempts[k].ok => Resolve(attempts[k].parent) \in fs.dirs
        /\ pc \in {"done", "crashed"} =>
               attempted = IF ClassicRun THEN DefinitionLines(lines, 1)
                           ELSE [k \in 1..Len(items) |-> k]

\* a line that gives no item: blank, comment, annotation, a lone brace or
\* sentinel, a line that is no marker line, or a marker line whose name
\* normalizes to the empty string
NoItemLine(raw) ==
    LET line == Strip(raw)
    IN  \/ line = <<>>
        \/ Head(line) \in {SQ, "@"}
        \/ line \in {<<"}">>, <<"{">>, <<"{", "T">>}
        \/ Head(line) # "+"
        \/ clean_name(line) = <<>>

ZeroItemDocument ==
    Said("SALT", <<>>) /\ \A k \in 1..Len(lines) : NoItemLine(lines[k])

\* C14: a marker document without any item gets the warning, no filesystem
\* operation of the parser (the tree is the initial one plus the target root
\* made by main), and the run ends normally with exit code 0
C14_ZeroItems ==
    ZeroItemDocument =>
        /\ Said("WARNING_NO_ITEMS", <<>>)
        /\ items = <<>>
        /\ attempts = <<>>
        /\ fs = Mkdir(fs0, target_root, TRUE, TRUE).fs
        /\ pc \in {"ret", "done"}
        /\ pc = "done" => exit_code = 0 /\ Said("COMPLETE", <<>>)

\* a finished run whose document has a marker line with an empty name next to
\* another line
C14_Witness ==
    /\ ZeroItemDocument
    /\ pc = "done"
    /\ Len(lines) >= 2
    /\ \E k \in 1..Len(lines) : IsMarkerLine(lines[k])

\* C17: in the brace parser a file-like definition line, with or without a
\* trailing '{', leaves the path stack as it is; the stack grows only on a
\* directory-like definition line, and then by exactly that directory; blank,
\* comment, annotation and non-matching lines change neither the stack nor
\* the filesystem
C17_FilesNeverPush ==
    [][pc = "classic_loop" =>
        LET line == Strip(lines[i])
            m == DefMatch(line)
            skipped == line = <<>> \/ Head(line) \in {SQ, "@"}
            closes == ~skipped /\ Head(line) = "}"
            defines == ~skipped /\ ~closes /\ m.matched
        IN  /\ defines /\ m.obj_type \in FileTypes => path_stack' = path_stack
            /\ Len(path_stack') > Len(path_stack) =>
                   /\ defines /\ m.obj_type \in DirTypes
                   /\ path_stack' = Append(path_stack,
                                      PathJoin(Top(path_stack), clean_name(m.raw_name)))
            /\ skipped \/ (~closes /\ ~m.matched) => path_stack' = path_stack /\ fs' = fs
    ]_vars

\* a file-like definition with a '{' was created inside a package and the
\* stack still ends with the package
C17_Witness ==
    /\ ClassicRun
    /\ Len(attempts) >= 2
    /\ LET a == attempts[Len(attempts)]
       IN  /\ a.kind = "file" /\ a.ok
           /\ ClassicLine(lines[a.idx]).brace
           /\ i = a.idx + 1
           /\ Len(path_stack) = 2
           /\ Top(path_stack) = a.parent
           /\ a.parent # target_root

\* C18: during a marker parse the depth-to-path mapping never loses a depth;
\* a file item leaves it as it is, and a directory item changes at most the
\* entry of its own depth
C18_MappingNeverShrinks ==
    [][(pc \in {"salt", "salt_loop"}) =>
        /\ DOMAIN dir_stack \subseteq DOMAIN dir_stack'
        /\ (pc = "salt_loop") =>
               LET depth == items[i].depth
                   isfile == i = Len(items) \/ items[i + 1].depth <= depth
                   others == DOMAIN dir_stack \ {depth}
               IN  /\ isfile => dir_stack' = dir_stack
                   /\ DOMAIN dir_stack' \subseteq (DOMAIN dir_stack \cup {depth})
                   /\ \A d \in others : dir_stack'[d] = dir_stack[d]
    ]_vars

\* a directory of depth 1 was registered after a deeper one, whose entry of
\* another subtree is still there
C18_Witness ==
    /\ SaltRun
    /\ {1, 2} \subseteq DOMAIN dir_stack
    /\ attempts # <<>>
    /\ LET a == attempts[Len(attempts)]
       IN  /\ a.kind = "dir" /\ a.ok
           /\ items[a.idx].depth = 1
           /\ dir_stack[1] = a.path
           /\ Take(dir_stack[2], Len(a.path)) # a.path

----------------------------------------------------------------------------
(* clean_name on its own: every token up to MaxTok characters *)

TokChars == {"+", " ", DQ, SQ, "a"}

RECURSIVE TextsUpTo(_, _)
TextsUpTo(A, n) ==
    IF n = 0 THEN {<<>>}
    ELSE LET shorter == TextsUpTo(A, n - 1)
         IN  shorter \cup {Append(t, c) : t \in {u \in shorter : Len(u) = n - 1}, c \in A}

Idle ==
    /\ source = [exists |-> FALSE, text |-> <<>>]
    /\ fs = [dirs |-> {<<>>}, files |-> {}, data |-> {}]
    /\ fs0 = fs
    /\ denied = {}
    /\ pc = "idle"
    /\ lines = <<>>
    /\ items = <<>>
    /\ i = 0
    /\ dir_stack = <<>>
    /\ path_stack = <<>>
    /\ out = <<>>
    /\ attempts = <<>>
    /\ scope = <<>>
    /\ exit_code = -1
    /\ run = 1
    /\ first = <<>>

InitClean ==
    /\ Idle
    /\ name_str \in TextsUpTo(TokChars, MaxTok)
    /\ cleaned = <<>>

\* clean_name(name_str), then clean_name of the result
CleanOnce ==
    /\ pc = "idle"
    /\ cleaned = <<>>
    /\ cleaned' = <<clean_name(name_str)>>
    /\ UNCHANGED <<source, fs, fs0, denied, pc, lines, items, i, dir_stack, path_stack,
                   out, attempts, scope, exit_code, run, first, name_str>>

CleanAgain ==
    /\ pc = "idle"
    /\ Len(cleaned) = 1
    /\ cleaned' = Append(cleaned, clean_name(cleaned[1]))
    /\ UNCHANGED <<source, fs, fs0, denied, pc, lines, items, i, dir_stack, path_stack,
                   out, attempts, scope, exit_code, run, first, name_str>>

NextClean == CleanOnce \/ CleanAgain

SpecClean == InitClean /\ [][NextClean]_vars

\* the token without its markers and outer whitespace, quotes still on
Trimmed == Strip(MarkerStripped(name_str))

\* p is made of double quotes followed by single quotes
QuoteRun(p) ==
    \E x \in 0..Len(p) :
        /\ \A k \in 1..x : p[k] = DQ
        /\ \A k \in (x + 1)..Len(p) : p[k] = SQ

\* C15 as stated: at most one quote character is removed from each end of the
\* trimmed token
C15_OneLayer ==
    Len(cleaned) >= 1 =>
        \E a, b \in {0, 1} :
            /\ a + b <= Len(Trimmed)
            /\ cleaned[1] = SubSeq(Trimmed, 1 + a, Len(Trimmed) - b)
            /\ a = 1 => Trimmed[1] \in {DQ, SQ}
            /\ b = 1 => Trimmed[Len(Trimmed)] \in {DQ, SQ}

\* C15: the result is the trimmed token without a leading run of double quotes
\* then single quotes and without a trailing run of single quotes then double
\* quotes, every layer of them: it never starts or ends with a single quote,
\* and it starts or ends with a double quote only next to a removed single quote
C15_AllLayers ==
    Len(cleaned) >= 1 =>
        LET t == Trimmed
            r == cleaned[1]
        IN  \E a, b \in 0..Len(t) :
                /\ a + b <= Len(t)
                /\ r = SubSeq(t, 1 + a, Len(t) - b)
                /\ QuoteRun(Take(t, a))
                /\ QuoteRun(Reverse(Drop(t, Len(t) - b)))
                /\ r # <<>> =>
                       /\ Head(r) # SQ /\ r[Len(r)] # SQ
                       /\ SQ \notin {t[k] : k \in 1..a} => Head(r) # DQ
                       /\ SQ \notin {t[k] : k \in (Len(t) - b + 1)..Len(t)} => r[Len(r)] # DQ

\* a name wrapped in two layers of double quotes has lost both
C15_Witness ==
    /\ name_str = <<DQ, DQ, "a", DQ, DQ>>
    /\ cleaned = << <<"a">> >>

\* C7: clean_name applied to its own result gives that result again
C7_Idempotent == Len(cleaned) = 2 => cleaned[2] = cleaned[1]

----------------------------------------------------------------------------
(* Dialect detection on its own: main up to the routing decision, on every
   document of one or two lines of up to MaxDetect characters *)

DetectChars == {"+", " ", "{", "T"}

DetectLines == TextsUpTo(DetectChars, MaxDetect)

DetectDocs ==
    {<<>>} \cup {<<a>> : a \in DetectLines} \cup {<<a, b>> : a, b \in DetectLines}

InitDetect ==
    /\ source \in {[exists |-> TRUE, text |-> d] : d \in DetectDocs}
    /\ fs = Fresh
    /\ denied = {}
    /\ fs0 = fs
    /\ Fresh_process
    /\ run = 1
    /\ first = <<>>
    /\ name_str = <<>>
    /\ cleaned = <<>>

NextDetect == MainMkdirRoot \/ MainReadLines \/ MainRoute

SpecDetect == InitDetect /\ [][NextDetect]_vars

\* the routing decision has been taken
Routed == pc \notin {"main", "read", "route", "exit", "idle"}

MarkerSelected == Routed /\ (pc \in {"salt", "salt_loop"} \/ Said("SALT", <<>>))

\* C13: the marker parser is selected exactly when some line is a sentinel
\* line or a marker line, the brace parser otherwise, and the lines in the
\* opposite order give the same decision
C13_Detection ==
    Routed =>
        /\ MarkerSelected <=>
               \E k \in 1..Len(lines) : IsSentinelLine(lines[k]) \/ IsMarkerLine(lines[k])
        /\ is_salt_file(Reverse(lines)) <=> MarkerSelected

\* the deciding line is the second of two: a brace-looking first line, a
\* marker or sentinel line after it
C13_Witness ==
    /\ pc = "salt"
    /\ Len(lines) = 2
    /\ ~IsMarkerLine(lines[1]) /\ ~IsSentinelLine(lines[1])
    /\ IsSentinelLine(lines[2]) \/ IsMarkerLine(lines[2])

====
